---- MODULE Spec2Model ----
(***************************************************************************)
(* A model of three parts of the shakmaty chess library:                   *)
(*   - perft.rs   : perft and debug_perft over an abstract Position,       *)
(*   - types.rs   : Role, Move, Move::from_uci and Display for Move,       *)
(*   - attacks.rs : the sliding-piece lookups (rook_attacks,               *)
(*                  bishop_attacks, queen_attacks), ray, between, aligned. *)
(* Each part has its own specification (SpecPerft, SpecUci, SpecRay,       *)
(* SpecMagic); the variables of the other parts stay idle.                 *)
(***************************************************************************)
EXTENDS Integers, Sequences, FiniteSets, TLC

VARIABLES
    \* ---- perft.rs
    game,       \* the position layer: position -> set of successor positions
    root,       \* pos argument of perft / debug_perft
    depth,      \* depth argument (u8)
    rejected,   \* moves of the root that the checked apply (play) rejects
    pc,         \* "init", "counted", "iter", "returned", "panicked"
    count,      \* Option: value returned by perft(pos, depth)
    moves,      \* MoveList of debug_perft
    nextIdx,    \* position of the moves.iter() iterator (1-based)
    sum,        \* running accumulator of .sum()
    out,        \* lines written by println!
    dresult,    \* Option: value returned by debug_perft
    \* ---- types.rs
    uciPc,      \* "move", "text", "parsed", or "idle"
    mv,         \* Option: the Move that was formatted (None for a raw token)
    text,       \* the token: a sequence of characters
    parsed,     \* outcome of Move::from_uci(text)
    \* ---- attacks.rs: ray, between, aligned
    rayPc,      \* "args", "done", or "idle"
    sqA, sqB, sqC,          \* the squares a, b, c
    rayAB, rayBA,           \* ray(a, b), ray(b, a)
    betweenAB, betweenBA,   \* between(a, b), between(b, a)
    alignedABC,             \* aligned(a, b, c)
    \* ---- attacks.rs: rook_attacks, bishop_attacks, queen_attacks
    magicPc,    \* "args", "done", or "idle"
    slider,     \* the square sq of the sliding piece
    occA, occB, \* two occupancy bitboards
    rookIdx, bishopIdx,         \* the table indices computed for occA, occB
    rookRes, bishopRes, queenRes    \* the outcomes of the lookups

perftVars == <<game, root, depth, rejected, pc, count, moves, nextIdx, sum, out, dresult>>
uciVars == <<uciPc, mv, text, parsed>>
rayVars == <<rayPc, sqA, sqB, sqC, rayAB, rayBA, betweenAB, betweenBA, alignedABC>>

magicVars ==
    <<magicPc, slider, occA, occB, rookIdx, bishopIdx, rookRes, bishopRes, queenRes>>

vars == <<perftVars, uciVars, rayVars, magicVars>>

\* Option<T>: None is the empty sequence, Some(x) the one-element sequence.
None == <<>>
Some(x) == <<x>>

\* The parts a specification does not exercise.
IdlePerft ==
    /\ game = <<>> /\ root = 0 /\ depth = 0 /\ rejected = {} /\ pc = "idle"
    /\ count = None /\ moves = <<>> /\ nextIdx = 1 /\ sum = 0 /\ out = <<>>
    /\ dresult = None
IdleUci == uciPc = "idle" /\ mv = None /\ text = <<>> /\ parsed = None
IdleRay ==
    /\ rayPc = "idle" /\ sqA = 0 /\ sqB = 0 /\ sqC = 0 /\ rayAB = {} /\ rayBA = {}
    /\ betweenAB = {} /\ betweenBA = {} /\ alignedABC = FALSE
IdleMagic ==
    /\ magicPc = "idle" /\ slider = 0 /\ occA = {} /\ occB = {}
    /\ rookIdx = <<>> /\ bishopIdx = <<>>
    /\ rookRes = <<>> /\ bishopRes = <<>> /\ queenRes = <<>>

(***************************************************************************)
(* Bounds of the position layer explored by SpecPerft.                     *)
(***************************************************************************)
NumPos == 3
MaxDepth == 3

Pos == 1..NumPos

\* Positions a move from p may lead to: the next two positions, or back to
\* position 1 (so that cycles, transpositions and dead ends all occur).
Targets(p) == {q \in Pos : q = 1 \/ (q > p /\ q <= p + 2)}

Games == {g \in [Pos -> SUBSET Pos] : \A p \in Pos : g[p] \subseteq Targets(p)}

RECURSIVE SortedSeq(_)
SortedSeq(S) ==
    IF S = {} THEN <<>>
    ELSE LET m == CHOOSE x \in S : \A y \in S : x <= y
         IN <<m>> \o SortedSeq(S \ {m})

RECURSIVE SumSeq(_)
SumSeq(s) == IF s = <<>> THEN 0 ELSE Head(s) + SumSeq(Tail(s))

\* A move of the abstract position layer: where it is played and where it leads.
MoveOf(p, q) == [from |-> p, to |-> q]

\* Position::legal_moves: fills the MoveList, in a fixed enumeration order.
legal_moves(pos) ==
    LET ts == SortedSeq(game[pos])
    IN [i \in 1..Len(ts) |-> MoveOf(pos, ts[i])]

\* Position::play_unchecked: the fast-path apply.
play_unchecked(pos, m) == m.to

\* Position::play: the checked apply; Err(()) is None here.
play(pos, m) ==
    IF m \in rejected THEN None ELSE Some(play_unchecked(pos, m))

(***************************************************************************)
(* perft (perft.rs:23-39)                                                  *)
(***************************************************************************)
RECURSIVE perft_off_by_one(_, _)
perft_off_by_one(pos, d) ==
    IF d < 1 THEN 1
    ELSE LET ms == legal_moves(pos)
         IN IF d = 1 THEN Len(ms) + 1
            ELSE SumSeq([i \in 1..Len(ms) |->
                            perft_off_by_one(play_unchecked(pos, ms[i]), d - 1)])

RECURSIVE perft(_, _)
perft(pos, d) ==
    IF d < 1 THEN 1
    ELSE LET ms == legal_moves(pos)
         IN IF d = 1 THEN Len(ms)
            ELSE SumSeq([i \in 1..Len(ms) |->
                            perft(play_unchecked(pos, ms[i]), d - 1)])

\* The line debug_perft prints for move m: "<uci> <m> <depth - 1>: <nodes>".
DebugLine(m, d, nodes) == [move |-> m, depth |-> d - 1, nodes |-> nodes]

\* The closure of debug_perft's map (perft.rs:49-55), for one move:
\* Some(<<line, nodes>>), or None when play(m).expect("legal move") panics.
DebugChildSameDepth(m, d) ==
    LET child == play(root, m)
    IN IF child = None THEN None
       ELSE LET nodes == perft(child[1], d)
            IN Some(<<DebugLine(m, d, nodes), nodes>>)

DebugChild(m, d) ==
    LET child == play(root, m)
    IN IF child = None THEN None
       ELSE LET nodes == perft(child[1], d - 1)
            IN Some(<<DebugLine(m, d, nodes), nodes>>)

(***************************************************************************)
(* SpecPerft: perft(pos, depth), then debug_perft(pos, depth) one iterator *)
(* step at a time.                                                         *)
(***************************************************************************)
InitPerft ==
    /\ game \in Games
    /\ root = 1
    /\ depth \in 0..MaxDepth
    /\ rejected \in SUBSET {MoveOf(1, q) : q \in game[1]}
    /\ pc = "init"
    /\ count = None
    /\ moves = <<>>
    /\ nextIdx = 1
    /\ sum = 0
    /\ out = <<>>
    /\ dresult = None
    /\ IdleUci /\ IdleRay /\ IdleMagic

RunPerft ==
    /\ pc = "init"
    /\ count' = Some(perft(root, depth))
    /\ pc' = "counted"
    /\ UNCHANGED <<uciVars, rayVars, magicVars>>
    /\ UNCHANGED <<game, root, depth, rejected, moves, nextIdx, sum, out, dresult>>

\* perft.rs:43-47
DebugEnter ==
    /\ pc = "counted"
    /\ IF depth < 1
       THEN /\ dresult' = Some(1)
            /\ pc' = "returned"
            /\ UNCHANGED moves
       ELSE /\ moves' = legal_moves(root)
            /\ pc' = "iter"
            /\ UNCHANGED dresult
    /\ UNCHANGED <<uciVars, rayVars, magicVars>>
    /\ UNCHANGED <<game, root, depth, rejected, count, nextIdx, sum, out>>

\* A variant that drops a rejected move instead of panicking.
DebugMoveSkipRejected ==
    /\ pc = "iter"
    /\ nextIdx <= Len(moves)
    /\ LET r == DebugChild(moves[nextIdx], depth)
       IN IF r = None
          THEN UNCHANGED <<out, sum, pc>>
          ELSE /\ out' = Append(out, r[1][1])
               /\ sum' = sum + r[1][2]
               /\ UNCHANGED pc
    /\ nextIdx' = nextIdx + 1
    /\ UNCHANGED <<uciVars, rayVars, magicVars>>
    /\ UNCHANGED <<game, root, depth, rejected, count, moves, dresult>>

\* perft.rs:49-55, one element of moves.iter().map(..)
DebugMove ==
    /\ pc = "iter"
    /\ nextIdx <= Len(moves)
    /\ LET r == DebugChild(moves[nextIdx], depth)
       IN IF r = None
          THEN /\ pc' = "panicked"
               /\ UNCHANGED <<out, sum, nextIdx>>
          ELSE /\ out' = Append(out, r[1][1])
               /\ sum' = sum + r[1][2]
               /\ nextIdx' = nextIdx + 1
               /\ UNCHANGED pc
    /\ UNCHANGED <<uciVars, rayVars, magicVars>>
    /\ UNCHANGED <<game, root, depth, rejected, count, moves, dresult>>

\* perft.rs:55, .sum() once the iterator is exhausted
DebugReturn ==
    /\ pc = "iter"
    /\ nextIdx > Len(moves)
    /\ dresult' = Some(sum)
    /\ pc' = "returned"
    /\ UNCHANGED <<uciVars, rayVars, magicVars>>
    /\ UNCHANGED <<game, root, depth, rejected, count, moves, nextIdx, sum, out>>

NextPerft == RunPerft \/ DebugEnter \/ DebugMove \/ DebugReturn

SpecPerft == InitPerft /\ [][NextPerft]_vars

(***************************************************************************)
(* Reference notions for the perft claims.                                 *)
(***************************************************************************)
\* The legal move sequences of exactly d plies from p, each given by the
\* positions it passes through (a move of a position is determined by where
\* it leads).
LegalLines(p, d) ==
    {s \in [1..d -> Pos] :
        \A k \in 1..d : s[k] \in game[IF k = 1 THEN p ELSE s[k - 1]]}

\* The lines debug_perft is expected to have written when it returns.
ExpectedLines ==
    IF depth = 0 THEN <<>>
    ELSE LET ms == legal_moves(root)
         IN [i \in 1..Len(ms) |->
                [move  |-> ms[i],
                 depth |-> depth - 1,
                 nodes |-> perft(play_unchecked(root, ms[i]), depth - 1)]]

RootMoves == {MoveOf(root, q) : q \in game[root]}

\* C1: perft(pos, depth) is the number of legal move sequences of exactly
\* depth plies from pos (paths, not positions; a line that runs out of moves
\* early counts 0): 1 at depth 0, the number of legal moves at depth 1, and the
\* sum of the children's perft at depth - 1 above that.
C1_PerftCountsLines ==
    /\ pc # "init" => count = Some(Cardinality(LegalLines(root, depth)))
    /\ \A p \in Pos : \A d \in 0..depth :
          /\ perft(p, d) = Cardinality(LegalLines(p, d))
          /\ d = 0 => perft(p, d) = 1
          /\ d = 1 => perft(p, d) = Cardinality(game[p])
          /\ d > 1 => perft(p, d) =
                SumSeq([i \in 1..Len(legal_moves(p)) |->
                          perft(play_unchecked(p, legal_moves(p)[i]), d - 1)])

\* C1 witness: perft has run at depth >= 2 on a game in which two different
\* lines end in the same position and some line dies before the final ply.
C1_Witness ==
    /\ pc = "counted"
    /\ depth >= 2
    /\ count[1] >= 2
    /\ \E s, t \in LegalLines(root, depth) : s # t /\ s[depth] = t[depth]
    /\ \E s \in LegalLines(root, depth - 1) : game[s[depth - 1]] = {}

\* C5: when debug_perft returns, it returns what perft returned, and it has
\* written exactly one line per legal move of pos, in enumeration order, each
\* with depth - 1 and perft(child, depth - 1); nothing at depth 0.  It returns
\* whenever the checked apply accepts every move of the root.
C5_DebugPerftAgrees ==
    /\ pc = "returned" =>
          /\ dresult = count
          /\ dresult = Some(perft(root, depth))
          /\ out = ExpectedLines
          /\ Len(out) = (IF depth = 0 THEN 0 ELSE Len(legal_moves(root)))
    /\ rejected = {} => pc # "panicked"
    /\ depth = 0 => out = <<>> /\ pc # "panicked"

\* C5 witness: debug_perft returned at depth >= 2 after writing several lines
\* with different sub-counts.
C5_Witness ==
    /\ pc = "returned"
    /\ depth >= 2
    /\ Len(out) >= 2
    /\ out[1].nodes # out[2].nodes
    /\ dresult[1] >= 3

\* C6: once the checked apply rejects a move of the root, debug_perft panics:
\* it returns no count and does not go on to the remaining moves; it returns
\* only if every move was accepted.  perft itself always returns a count.
C6_RejectedMoveAborts ==
    /\ pc = "panicked" =>
          /\ dresult = None
          /\ moves[nextIdx] \in rejected
          /\ ~ ENABLED NextPerft
    /\ (pc = "returned" /\ depth >= 1) => \A i \in 1..Len(moves) : moves[i] \notin rejected
    /\ pc # "init" => count # None /\ count[1] \in Nat

\* C6 witness: the panic happened after a line was written and with moves left.
C6_Witness ==
    /\ pc = "panicked"
    /\ Len(out) >= 1
    /\ nextIdx < Len(moves)

(***************************************************************************)
(* types.rs: Role, Move, Move::from_uci, Display for Move.                 *)
(* A string is a sequence of characters; a character is a one-token string *)
(* and takes one byte in UTF-8, except the non-ASCII ones, which take two. *)
(***************************************************************************)
Squares == 0..63

AsciiLower == <<"a", "b", "c", "d", "e", "f", "g", "h", "i", "j", "k", "l", "m",
                "n", "o", "p", "q", "r", "s", "t", "u", "v", "w", "x", "y", "z">>
AsciiUpper == <<"A", "B", "C", "D", "E", "F", "G", "H", "I", "J", "K", "L", "M",
                "N", "O", "P", "Q", "R", "S", "T", "U", "V", "W", "X", "Y", "Z">>
FileChars == <<"a", "b", "c", "d", "e", "f", "g", "h">>
RankChars == <<"1", "2", "3", "4", "5", "6", "7", "8">>

\* Characters outside ASCII (two bytes each in UTF-8).
NonAscii == {"U+00E9"}

IndexOf(seq, c) == CHOOSE i \in 1..Len(seq) : seq[i] = c
Range(seq) == {seq[i] : i \in 1..Len(seq)}

\* char::to_ascii_lowercase / to_ascii_uppercase
to_ascii_lowercase(c) ==
    IF c \in Range(AsciiUpper) THEN AsciiLower[IndexOf(AsciiUpper, c)] ELSE c
to_ascii_uppercase(c) ==
    IF c \in Range(AsciiLower) THEN AsciiUpper[IndexOf(AsciiLower, c)] ELSE c

\* str::len: the length in bytes.
Utf8Len(c) == IF c \in NonAscii THEN 2 ELSE 1
RECURSIVE ByteLen(_)
ByteLen(str) == IF str = <<>> THEN 0 ELSE Utf8Len(Head(str)) + ByteLen(Tail(str))

\* Byte offset at which character i of str starts (i = Len(str) + 1: the end).
ByteOffset(str, i) == ByteLen(SubSeq(str, 1, i - 1))
IsCharBoundary(str, b) == \E i \in 1..(Len(str) + 1) : ByteOffset(str, i) = b

\* &str[lo..hi] for lo <= hi <= str.len(): the characters in that byte range.
\* Slicing off a character boundary panics; callers test SliceOk first.
SliceOk(str, lo, hi) == IsCharBoundary(str, lo) /\ IsCharBoundary(str, hi)
ByteSlice(str, lo, hi) ==
    LET first == CHOOSE i \in 1..(Len(str) + 1) : ByteOffset(str, i) = lo
        last  == CHOOSE i \in 1..(Len(str) + 1) : ByteOffset(str, i) = hi
    IN SubSeq(str, first, last - 1)

\* str.chars().nth(n), n counted from 0
chars_nth(str, n) == IF n < Len(str) THEN Some(str[n + 1]) ELSE None

Roles == {"Pawn", "Knight", "Bishop", "Rook", "Queen", "King"}

\* Role::from_char (types.rs:50-60)
Role_from_char(ch) ==
    CASE ch = "p" -> Some("Pawn")
      [] ch = "n" -> Some("Knight")
      [] ch = "b" -> Some("Bishop")
      [] ch = "r" -> Some("Rook")
      [] ch = "q" -> Some("Queen")
      [] ch = "k" -> Some("King")
      [] OTHER    -> None

\* Role::char (types.rs:66-75)
Role_char(role) ==
    CASE role = "Pawn"   -> "p"
      [] role = "Knight" -> "n"
      [] role = "Bishop" -> "b"
      [] role = "Rook"   -> "r"
      [] role = "Queen"  -> "q"
      [] role = "King"   -> "k"

\* Display for Square: file letter, then rank digit.
Square_to_string(sq) == <<FileChars[(sq % 8) + 1], RankChars[(sq \div 8) + 1]>>

\* Square::from_str: Ok for exactly a file letter a-h followed by a rank
\* digit 1-8, Err (None) for anything else.
Square_from_str(str) ==
    IF /\ ByteLen(str) = 2
       /\ Len(str) = 2
       /\ str[1] \in Range(FileChars)
       /\ str[2] \in Range(RankChars)
    THEN Some((IndexOf(RankChars, str[2]) - 1) * 8 + (IndexOf(FileChars, str[1]) - 1))
    ELSE None

\* enum Move (types.rs:99-103)
Normal(from, to, promotion) ==
    [kind |-> "Normal", from |-> from, to |-> to, promotion |-> promotion]
Put(to, role) == [kind |-> "Put", to |-> to, role |-> role]
Null == [kind |-> "Null"]

Moves ==
    {Normal(f, t, pr) : f \in Squares, t \in Squares,
                        pr \in {None} \cup {Some(r) : r \in Roles}}
    \cup {Put(t, r) : t \in Squares, r \in Roles}
    \cup {Null}

\* impl fmt::Display for Move (types.rs:137-150)
Move_to_string(m) ==
    CASE m.kind = "Normal" /\ m.promotion = None ->
            Square_to_string(m.from) \o Square_to_string(m.to)
      [] m.kind = "Normal" /\ m.promotion # None ->
            Square_to_string(m.from) \o Square_to_string(m.to)
                \o <<Role_char(m.promotion[1])>>
      [] m.kind = "Put" ->
            <<to_ascii_uppercase(Role_char(m.role)), "@">> \o Square_to_string(m.to)
      [] m.kind = "Null" -> <<"0", "0", "0", "0">>

\* The outcome of a call: it returned a value, or it panicked.
Returned(v) == [panicked |-> FALSE, value |-> v]
Panicked == [panicked |-> TRUE, value |-> None]

\* First match of from_uci (types.rs:111-119): Some(result to return), or
\* None when the arm `_ => ()` is taken.
match_normal(uci) ==
    LET from == Square_from_str(ByteSlice(uci, 0, 2))
        to == Square_from_str(ByteSlice(uci, 2, 4))
        promotion == chars_nth(uci, 4)
    IN IF from # None /\ to # None
       THEN IF promotion # None
            THEN LET role == Role_from_char(promotion[1])
                 IN Some(IF role = None THEN None
                         ELSE Some(Normal(from[1], to[1], Some(role[1]))))
            ELSE Some(Some(Normal(from[1], to[1], None)))
       ELSE None

\* The second match without the to_ascii_lowercase of the piece letter.
match_put_case_sensitive(uci) ==
    LET piece == chars_nth(uci, 0)
        at == chars_nth(uci, 1)
        to == Square_from_str(ByteSlice(uci, 2, 4))
    IN IF piece # None /\ at = Some("@") /\ to # None
       THEN LET role == Role_from_char(piece[1])
            IN Some(IF role = None THEN None ELSE Some(Put(to[1], role[1])))
       ELSE None

\* Second match of from_uci (types.rs:121-127)
match_put(uci) ==
    LET piece == chars_nth(uci, 0)
        at == chars_nth(uci, 1)
        to == Square_from_str(ByteSlice(uci, 2, 4))
    IN IF piece # None /\ at = Some("@") /\ to # None
       THEN LET role == Role_from_char(to_ascii_lowercase(piece[1]))
            IN Some(IF role = None THEN None ELSE Some(Put(to[1], role[1])))
       ELSE None

\* Move::from_uci (types.rs:106-134)
from_uci(uci) ==
    IF ByteLen(uci) < 4 \/ ByteLen(uci) > 5 THEN Returned(None)
    ELSE IF ~ (SliceOk(uci, 0, 2) /\ SliceOk(uci, 2, 4)) THEN Panicked
    ELSE IF match_normal(uci) # None THEN Returned(match_normal(uci)[1])
    ELSE IF match_put(uci) # None THEN Returned(match_put(uci)[1])
    ELSE IF uci = <<"0", "0", "0", "0">> THEN Returned(Some(Null))
    ELSE Returned(None)

(***************************************************************************)
(* SpecUci: a Move is written with Display and read back with from_uci, or *)
(* a raw token is read with from_uci.                                      *)
(***************************************************************************)
MaxLen == 5

Alphabet == {"b", "1", "q", "Q", "@", "0", "U+00E9"}

Tokens == UNION {[1..n -> Alphabet] : n \in 0..MaxLen}

InitUci ==
    /\ \/ uciPc = "move" /\ mv \in {Some(m) : m \in Moves} /\ text = <<>>
       \/ uciPc = "text" /\ mv = None /\ text \in Tokens
    /\ parsed = None
    /\ IdlePerft /\ IdleRay /\ IdleMagic

Format ==
    /\ uciPc = "move"
    /\ text' = Move_to_string(mv[1])
    /\ uciPc' = "text"
    /\ UNCHANGED <<mv, parsed>>
    /\ UNCHANGED <<perftVars, rayVars, magicVars>>

Parse ==
    /\ uciPc = "text"
    /\ parsed' = from_uci(text)
    /\ uciPc' = "parsed"
    /\ UNCHANGED <<mv, text>>
    /\ UNCHANGED <<perftVars, rayVars, magicVars>>

NextUci == Format \/ Parse

SpecUci == InitUci /\ [][NextUci]_vars

\* A token of one of the four shapes from_uci is meant to read (the role
\* letter of a drop or a promotion in either case).
IsSquareText(str) == Square_from_str(str) # None
RoleLetters == {Role_char(r) : r \in Roles} \cup {to_ascii_uppercase(Role_char(r)) : r \in Roles}
WellFormed(str) ==
    \/ /\ Len(str) = 4
       /\ IsSquareText(SubSeq(str, 1, 2)) /\ IsSquareText(SubSeq(str, 3, 4))
    \/ /\ Len(str) = 5
       /\ IsSquareText(SubSeq(str, 1, 2)) /\ IsSquareText(SubSeq(str, 3, 4))
       /\ str[5] \in RoleLetters
    \/ /\ Len(str) = 4
       /\ str[1] \in RoleLetters /\ str[2] = "@" /\ IsSquareText(SubSeq(str, 3, 4))
    \/ str = <<"0", "0", "0", "0">>

\* C3: Move::from_uci(m.to_string()) == Some(m) for every Move m (Normal with
\* or without a promotion to any of the six roles, Put of any role, Null).
C3_RoundTrip ==
    (uciPc = "parsed" /\ mv # None) => parsed = Returned(Some(mv[1]))

\* C3 witness: a drop (written with an upper-case role letter) was read back.
C3_Witness ==
    /\ uciPc = "parsed"
    /\ mv # None
    /\ mv[1].kind = "Put"
    /\ text = <<"K", "@", "h", "8">>
    /\ parsed.value = mv

\* C4: from_uci returns None for every malformed token (it neither returns a
\* Move nor fails).
C4_MalformedYieldsNone ==
    (uciPc = "parsed" /\ mv = None /\ ~ WellFormed(text)) => parsed = Returned(None)

(***************************************************************************)
(* attacks.rs: ray, between, aligned.  A Bitboard is the set of its        *)
(* squares; square = 8 * rank + file.                                      *)
(***************************************************************************)
FileOf(sq) == sq % 8
RankOf(sq) == sq \div 8
Sign(n) == IF n > 0 THEN 1 ELSE IF n < 0 THEN -1 ELSE 0

\* The squares from `from` (excluded) up to `to` (excluded), stepping by
\* (df, dr); `to` lies on that line.
RECURSIVE StepUntil(_, _, _, _)
StepUntil(from, to, df, dr) ==
    LET next == (RankOf(from) + dr) * 8 + (FileOf(from) + df)
    IN IF next = to THEN {} ELSE {next} \cup StepUntil(next, to, df, dr)

\* Which of the four line types two distinct squares share, if any.
LineType(a, b) ==
    IF a = b THEN "none"
    ELSE IF RankOf(a) = RankOf(b) THEN "rank"
    ELSE IF FileOf(a) = FileOf(b) THEN "file"
    ELSE IF RankOf(a) - FileOf(a) = RankOf(b) - FileOf(b) THEN "diagonal"
    ELSE IF RankOf(a) + FileOf(a) = RankOf(b) + FileOf(b) THEN "antidiagonal"
    ELSE "none"

\* The generated table BB_RAYS: the whole line through a and b.
BB_RAYS(a, b) ==
    CASE LineType(a, b) = "rank" -> {s \in Squares : RankOf(s) = RankOf(a)}
      [] LineType(a, b) = "file" -> {s \in Squares : FileOf(s) = FileOf(a)}
      [] LineType(a, b) = "diagonal" ->
            {s \in Squares : RankOf(s) - FileOf(s) = RankOf(a) - FileOf(a)}
      [] LineType(a, b) = "antidiagonal" ->
            {s \in Squares : RankOf(s) + FileOf(s) = RankOf(a) + FileOf(a)}
      [] OTHER -> {}

\* The generated table BB_BETWEEN: walk from a towards b.
BB_BETWEEN(a, b) ==
    IF LineType(a, b) = "none" THEN {}
    ELSE StepUntil(a, b, Sign(FileOf(b) - FileOf(a)), Sign(RankOf(b) - RankOf(a)))

\* ray (attacks.rs:182-184)
ray(a, b) == BB_RAYS(a, b)

\* A lookup that also returns the far end of the segment.
between_with_far_end(a, b) == BB_BETWEEN(a, b) \cup {b}

\* between (attacks.rs:208-210)
between(a, b) == BB_BETWEEN(a, b)

\* A test against the segment instead of the whole line.
aligned_on_segment(a, b, c) == c \in between(a, b)

\* aligned (attacks.rs:223-225)
aligned(a, b, c) == c \in ray(a, b)

(***************************************************************************)
(* SpecRay: ray, between and aligned are queried for squares a, b, c.      *)
(***************************************************************************)
InitRay ==
    /\ rayPc = "args"
    /\ sqA \in Squares /\ sqB \in Squares /\ sqC \in Squares
    /\ rayAB = {} /\ rayBA = {} /\ betweenAB = {} /\ betweenBA = {}
    /\ alignedABC = FALSE
    /\ IdlePerft /\ IdleUci /\ IdleMagic

Query ==
    /\ rayPc = "args"
    /\ rayAB' = ray(sqA, sqB)
    /\ rayBA' = ray(sqB, sqA)
    /\ betweenAB' = between(sqA, sqB)
    /\ betweenBA' = between(sqB, sqA)
    /\ alignedABC' = aligned(sqA, sqB, sqC)
    /\ rayPc' = "done"
    /\ UNCHANGED <<sqA, sqB, sqC>>
    /\ UNCHANGED <<perftVars, uciVars, magicVars>>

NextRay == Query

SpecRay == InitRay /\ [][NextRay]_vars

\* The ranks, files, diagonals and antidiagonals of the board.
BoardLines ==
    {{s \in Squares : RankOf(s) = k} : k \in 0..7}
    \cup {{s \in Squares : FileOf(s) = k} : k \in 0..7}
    \cup {{s \in Squares : RankOf(s) - FileOf(s) = k} : k \in -7..7}
    \cup {{s \in Squares : RankOf(s) + FileOf(s) = k} : k \in 0..14}

OnCommonLine(S) == \E line \in BoardLines : S \subseteq line

\* The squares of a common line of a and b that lie strictly between them.
OpenSegment(a, b) ==
    {s \in UNION {line \in BoardLines : {a, b} \subseteq line} :
        \/ FileOf(a) < FileOf(s) /\ FileOf(s) < FileOf(b)
        \/ FileOf(b) < FileOf(s) /\ FileOf(s) < FileOf(a)
        \/ RankOf(a) < RankOf(s) /\ RankOf(s) < RankOf(b)
        \/ RankOf(b) < RankOf(s) /\ RankOf(s) < RankOf(a)}

\* C7 as stated: aligned(a, b, c) is true exactly when a, b and c lie on one
\* common rank, file or diagonal, for every triple, coinciding squares
\* included.
C7_AlignedIffCommonLine ==
    rayPc = "done" => (alignedABC <=> OnCommonLine({sqA, sqB, sqC}))

\* C7 amended: aligned(a, b, c) is ray(a, b).contains(c); for a # b it is true
\* exactly when a, b and c lie on one common rank, file or diagonal (c may
\* coincide with a or b); for a = b it is false for every c.
C7_AlignedDistinct ==
    rayPc = "done" =>
        /\ alignedABC = (sqC \in rayAB)
        /\ sqA # sqB => (alignedABC <=> OnCommonLine({sqA, sqB, sqC}))
        /\ sqA = sqB => ~ alignedABC

\* C7 witness: c coincides with a on a diagonal through a # b, and is aligned.
C7_Witness ==
    /\ rayPc = "done"
    /\ sqA # sqB /\ sqC = sqA
    /\ RankOf(sqA) # RankOf(sqB) /\ FileOf(sqA) # FileOf(sqB)
    /\ alignedABC

\* C8: ray(a, b) = ray(b, a) and between(a, b) = between(b, a) for every
\* ordered pair; ray is the whole line through two distinct aligned squares,
\* between the open segment, and both are empty when a = b or unaligned.
C8_Symmetric ==
    rayPc = "done" =>
        /\ rayAB = rayBA
        /\ betweenAB = betweenBA
        /\ betweenAB = OpenSegment(sqA, sqB)
        /\ IF sqA # sqB /\ OnCommonLine({sqA, sqB})
           THEN rayAB \in BoardLines /\ {sqA, sqB} \subseteq rayAB
           ELSE rayAB = {} /\ betweenAB = {}

\* C8 witness: two distinct squares of an antidiagonal with squares between.
C8_Witness ==
    /\ rayPc = "done"
    /\ sqA > sqB
    /\ RankOf(sqA) + FileOf(sqA) = RankOf(sqB) + FileOf(sqB)
    /\ Cardinality(betweenAB) >= 2
    /\ Cardinality(rayAB) > Cardinality(betweenAB) + 2

(***************************************************************************)
(* attacks.rs: rook_attacks, bishop_attacks, queen_attacks, rook_mask and  *)
(* bishop_mask.  The magic records (magics::ROOK_MAGICS, BISHOP_MAGICS)    *)
(* and the shared table ATTACKS are generated data outside the sources;    *)
(* they are built here by the documented generation algorithm: masks and   *)
(* attack sets by ray-casting, a multiplicative hash per square, and each  *)
(* square's offset placed past the highest index the previous one used.    *)
(* A bitboard is the set of its squares.                                   *)
(***************************************************************************)
RookBits == 12
BishopBits == 9

ROOK_DELTAS == {<<1, 0>>, <<-1, 0>>, <<0, 1>>, <<0, -1>>}
BISHOP_DELTAS == {<<1, 1>>, <<1, -1>>, <<-1, 1>>, <<-1, -1>>}

OnBoard(f, r) == f \in 0..7 /\ r \in 0..7

\* The squares a slider on (f, r) reaches in direction d: every square up to
\* and including the first one in `occupied`, or up to the board edge.
RECURSIVE Slide(_, _, _, _)
Slide(f, r, d, occupied) ==
    LET nf == f + d[1]
        nr == r + d[2]
    IN IF ~ OnBoard(nf, nr) THEN {}
       ELSE IF (nr * 8 + nf) \in occupied THEN {nr * 8 + nf}
       ELSE {nr * 8 + nf} \cup Slide(nf, nr, d, occupied)

\* Reference attack set: a ray in each direction, stopping at (and including)
\* the first occupied square.
SlidingAttacks(sq, deltas, occupied) ==
    UNION {Slide(FileOf(sq), RankOf(sq), d, occupied) : d \in deltas}

\* Is (f, r) the last square of the board in direction d?
IsEdge(f, r, d) == ~ OnBoard(f + d[1], r + d[2])

\* Relevant-occupancy mask: the empty-board rays without their edge squares.
RelevantMask(sq, deltas) ==
    UNION {{s \in Slide(FileOf(sq), RankOf(sq), d, {}) :
              ~ IsEdge(FileOf(s), RankOf(s), d)} : d \in deltas}

\* The hash factors, one u64 per square, each as four 16-bit limbs with the
\* least significant first.
ROOK_FACTORS ==
  <<<<36992, 16386, 356, 128>>, <<72, 16, 32, 1088>>,
     <<136, 16, 288, 2856>>, <<512, 5136, 3136, 4608>>,
     <<272, 9222, 512, 33280>>, <<17408, 512, 129, 16>>,
     <<1344, 128, 8208, 8200>>, <<8448, 34112, 514, 33024>>,
     <<24616, 16, 8193, 4129>>, <<516, 32, 18436, 16384>>,
     <<4, 32, 194, 2>>, <<3328, 32, 16, 12545>>,
     <<16656, 8196, 384, 136>>, <<128, 36, 2114, 32904>>,
     <<24578, 5120, 256, 17>>, <<130, 36, 2064, 2096>>,
     <<128, 16, 9248, 1>>, <<8192, 16384, 2112, 0>>,
     <<264, 8208, 8, 32837>>, <<20480, 1280, 41216, 1>>,
     <<5124, 265, 512, 0>>, <<128, 6680, 4098, 8708>>,
     <<2560, 8452, 192, 0>>, <<26880, 33792, 512, 16448>>,
     <<16384, 24576, 9232, 288>>, <<49184, 512, 18, 9280>>,
     <<74, 4192, 32912, 16772>>, <<2052, 12292, 8737, 33800>>,
     <<2058, 160, 4152, 16768>>, <<128, 3072, 16400, 264>>,
     <<33116, 2048, 2064, 8384>>, <<513, 11313, 32768, 18>>,
     <<64, 320, 160, 128>>, <<36864, 4097, 265, 1027>>,
     <<4480, 41344, 2048, 32>>, <<2080, 512, 578, 1104>>,
     <<1024, 292, 2048, 4104>>, <<32778, 288, 32, 8196>>,
     <<33296, 34816, 8196, 1296>>, <<1092, 33280, 3232, 16384>>,
     <<18436, 34, 16, 8832>>, <<576, 160, 1040, 24>>,
     <<4352, 8192, 18468, 16>>, <<26624, 4104, 152, 82>>,
     <<32769, 1024, 26624, 0>>, <<66, 8466, 2176, 1040>>,
     <<1296, 16408, 34, 18993>>, <<4224, 64, 8196, 512>>,
     <<6656, 16896, 32864, 8192>>, <<49672, 21, 8, 12352>>,
     <<3088, 32778, 16896, 2560>>, <<2592, 1088, 4, 33794>>,
     <<32808, 2052, 8704, 10368>>, <<520, 33536, 0, 4>>,
     <<140, 580, 256, 144>>, <<512, 16417, 1056, 24592>>,
     <<514, 41857, 5184, 25092>>, <<49153, 33420, 43264, 1032>>,
     <<29186, 16520, 8324, 2>>, <<10, 7170, 1088, 10244>>,
     <<34, 2050, 37249, 2048>>, <<4098, 8328, 533, 34>>,
     <<4370, 34304, 33088, 33>>, <<8329, 16898, 5, 129>>>>

BISHOP_FACTORS ==
  <<<<1088, 16960, 36880, 1>>, <<4096, 33320, 20482, 2>>,
     <<10240, 12804, 20992, 2>>, <<33840, 708, 12880, 784>>,
     <<68, 512, 41992, 32776>>, <<34825, 16960, 32832, 4099>>,
     <<8226, 32916, 16400, 1040>>, <<36866, 4112, 16400, 1860>>,
     <<4, 50436, 34848, 4>>, <<17156, 8448, 35072, 16400>>,
     <<2560, 1024, 4420, 16384>>, <<132, 40992, 32, 33408>>,
     <<12288, 8192, 1152, 1152>>, <<16904, 32836, 160, 12307>>,
     <<12305, 34816, 16417, 32768>>, <<513, 16456, 37409, 2>>,
     <<64, 45125, 0, 8>>, <<304, 1025, 2050, 16416>>,
     <<4100, 258, 16, 1>>, <<544, 4128, 32, 4>>,
     <<5120, 4160, 544, 4097>>, <<8256, 260, 4226, 40968>>,
     <<16512, 51210, 1024, 0>>, <<8704, 5632, 32786, 8320>>,
     <<5632, 194, 33025, 520>>, <<16640, 4100, 32832, 2048>>,
     <<2689, 4232, 3344, 8192>>, <<514, 17409, 64, 13316>>,
     <<8216, 33408, 35840, 1>>, <<32832, 32896, 16640, 33408>>,
     <<1040, 5163, 6208, 2120>>, <<288, 534, 16448, 24600>>,
     <<512, 610, 33014, 13312>>, <<4129, 16, 16712, 32785>>,
     <<140, 4176, 8200, 0>>, <<128, 33304, 33280, 2048>>,
     <<516, 4180, 256, 36904>>, <<32832, 16384, 8225, 4>>,
     <<36881, 49156, 34818, 2>>, <<35016, 16448, 8977, 2048>>,
     <<1536, 25620, 8320, 0>>, <<2112, 33106, 34816, 5128>>,
     <<320, 4128, 8260, 2048>>, <<2128, 17408, 512, 8>>,
     <<1024, 8226, 260, 4098>>, <<288, 320, 34818, 16452>>,
     <<5120, 128, 162, 2>>, <<528, 1162, 641, 32769>>,
     <<32768, 8288, 2212, 8>>, <<32768, 136, 49160, 0>>,
     <<41217, 34, 5633, 40992>>, <<4673, 288, 18529, 1621>>,
     <<6160, 33286, 4096, 0>>, <<3616, 98, 2050, 1544>>,
     <<12672, 2048, 17416, 2052>>, <<8192, 514, 546, 1>>,
     <<49152, 4368, 49156, 1>>, <<9344, 2048, 1189, 0>>,
     <<4108, 4101, 10240, 18>>, <<2176, 144, 19596, 16384>>,
     <<544, 34818, 4104, 2720>>, <<20624, 4608, 64, 32816>>,
     <<33096, 34816, 8338, 8200>>, <<5136, 38912, 8325, 2053>>>>

\* Byte j (0..7) of the u64 whose set bits are the squares of S.
ByteOf(S, j) ==
      (IF (8 * j) \in S THEN 1 ELSE 0)
    + (IF (8 * j + 1) \in S THEN 2 ELSE 0)
    + (IF (8 * j + 2) \in S THEN 4 ELSE 0)
    + (IF (8 * j + 3) \in S THEN 8 ELSE 0)
    + (IF (8 * j + 4) \in S THEN 16 ELSE 0)
    + (IF (8 * j + 5) \in S THEN 32 ELSE 0)
    + (IF (8 * j + 6) \in S THEN 64 ELSE 0)
    + (IF (8 * j + 7) \in S THEN 128 ELSE 0)

\* factor.wrapping_mul(x) >> (64 - bits), for bits <= 16, where x is the u64
\* whose set bits are the squares of S: the top `bits` bits of the product
\* modulo 2^64, by long multiplication of the 16-bit limbs of factor with the
\* bytes of x.  t0..t7 are the columns of weight 256^k with their carries.
MulShift(factor, S, bits) ==
    LET x0 == ByteOf(S, 0)
        x1 == ByteOf(S, 1)
        x2 == ByteOf(S, 2)
        x3 == ByteOf(S, 3)
        x4 == ByteOf(S, 4)
        x5 == ByteOf(S, 5)
        x6 == ByteOf(S, 6)
        x7 == ByteOf(S, 7)
        t0 == factor[1] * x0
        t1 == factor[1] * x1 + (t0 \div 256)
        t2 == factor[1] * x2 + factor[2] * x0 + (t1 \div 256)
        t3 == factor[1] * x3 + factor[2] * x1 + (t2 \div 256)
        t4 == factor[1] * x4 + factor[2] * x2 + factor[3] * x0 + (t3 \div 256)
        t5 == factor[1] * x5 + factor[2] * x3 + factor[3] * x1 + (t4 \div 256)
        t6 == factor[1] * x6 + factor[2] * x4 + factor[3] * x2
                + factor[4] * x0 + (t5 \div 256)
        t7 == factor[1] * x7 + factor[2] * x5 + factor[3] * x3
                + factor[4] * x1 + (t6 \div 256)
    IN ((t7 % 256) * 256 + (t6 % 256)) \div (2 ^ (16 - bits))

\* What the generator writes for one square: for every subset of the mask,
\* the pair <<hash of the subset, attack set under that subset>>.
Entries(sq, deltas, factor, bits) ==
    {<<MulShift(factor, subset, bits), SlidingAttacks(sq, deltas, subset)>> :
        subset \in SUBSET RelevantMask(sq, deltas)}

\* The greatest element of a non-empty set of numbers.
Max(S) == CHOOSE x \in S : \A y \in S : y <= x

\* The highest index used among the hashes H: the greatest hash of the
\* highest block of 64 that holds one.
HighestUsed(H) ==
    LET top == Max({h \div 64 : h \in H})
    IN Max({h \in H : h \div 64 = top})

ROOK_ENTRIES ==
    [sq \in Squares |-> Entries(sq, ROOK_DELTAS, ROOK_FACTORS[sq + 1], RookBits)]
BISHOP_ENTRIES ==
    [sq \in Squares |->
        Entries(sq, BISHOP_DELTAS, BISHOP_FACTORS[sq + 1], BishopBits)]

\* The number of table entries a square takes: up to its highest hash.
ROOK_SPAN ==
    [sq \in Squares |-> HighestUsed({e[1] : e \in ROOK_ENTRIES[sq]}) + 1]
BISHOP_SPAN ==
    [sq \in Squares |-> HighestUsed({e[1] : e \in BISHOP_ENTRIES[sq]}) + 1]

\* The pairs of a square sorted into blocks of 64 hashes.
Blocks(entries, span) ==
    [b \in 0..((span - 1) \div 64) |-> {e \in entries : e[1] \div 64 = b}]

ROOK_BLOCKS == [sq \in Squares |-> Blocks(ROOK_ENTRIES[sq], ROOK_SPAN[sq])]
BISHOP_BLOCKS ==
    [sq \in Squares |-> Blocks(BISHOP_ENTRIES[sq], BISHOP_SPAN[sq])]

\* The part of the table one square takes: each entry holds the attack set
\* written at its hash, or the empty bitboard if nothing was.
Segment(blocks, span) ==
    [i \in 1..span |->
        LET written == {e[2] : e \in {w \in blocks[(i - 1) \div 64] :
                                          w[1] = i - 1}}
        IN IF written = {} THEN {} ELSE CHOOSE v \in written : TRUE]

ROOK_SEGMENTS == [sq \in Squares |-> Segment(ROOK_BLOCKS[sq], ROOK_SPAN[sq])]
BISHOP_SEGMENTS ==
    [sq \in Squares |-> Segment(BISHOP_BLOCKS[sq], BISHOP_SPAN[sq])]

\* The segments of squares sq..63, one after the other.
RECURSIVE Concat(_, _)
Concat(segments, sq) ==
    IF sq > 63 THEN <<>> ELSE segments[sq] \o Concat(segments, sq + 1)

\* The shared table: the rook segments, then the bishop segments; entry idx
\* of the Rust array is ATTACKS[idx + 1].
ATTACKS == Concat(ROOK_SEGMENTS, 0) \o Concat(BISHOP_SEGMENTS, 0)

\* ATTACKS.len()
ATTACKS_LEN == Len(ATTACKS)

\* The entries taken by the squares before sq.
RECURSIVE SpanBelow(_, _)
SpanBelow(segments, sq) ==
    IF sq = 0 THEN 0 ELSE Len(segments[sq - 1]) + SpanBelow(segments, sq - 1)

\* magics::ROOK_MAGICS / magics::BISHOP_MAGICS: one record per square, each
\* square's offset past the highest index used by the one before.
ROOK_MAGICS ==
    [sq \in Squares |->
        [mask |-> RelevantMask(sq, ROOK_DELTAS),
         factor |-> ROOK_FACTORS[sq + 1],
         offset |-> SpanBelow(ROOK_SEGMENTS, sq)]]
BISHOP_MAGICS ==
    [sq \in Squares |->
        [mask |-> RelevantMask(sq, BISHOP_DELTAS),
         factor |-> BISHOP_FACTORS[sq + 1],
         offset |-> SpanBelow(ROOK_SEGMENTS, 64) + SpanBelow(BISHOP_SEGMENTS, sq)]]

\* What a read past the end of the table may yield in a build without the
\* debug assertion: any word.  Two words stand for all of them.
Unspecified == {{}, Squares}

\* attacks.rs:76, with the index kept apart from the read.
rook_index_unmasked(sq, occupied) ==
    LET m == ROOK_MAGICS[sq]
    IN MulShift(m.factor, occupied, RookBits) + m.offset

rook_index_short_shift(sq, occupied) ==
    LET m == ROOK_MAGICS[sq]
    IN MulShift(m.factor, occupied \cap m.mask, RookBits + 1) + m.offset

rook_index(sq, occupied) ==
    LET m == ROOK_MAGICS[sq]
    IN MulShift(m.factor, occupied \cap m.mask, RookBits) + m.offset

\* attacks.rs:112
bishop_index_rook_shift(sq, occupied) ==
    LET m == BISHOP_MAGICS[sq]
    IN MulShift(m.factor, occupied \cap m.mask, RookBits) + m.offset

bishop_index(sq, occupied) ==
    LET m == BISHOP_MAGICS[sq]
    IN MulShift(m.factor, occupied \cap m.mask, BishopBits) + m.offset

\* debug_assert!(idx < ATTACKS.len()) followed by ATTACKS.get_unchecked(idx):
\* the outcomes of the read.
get_unchecked(idx) ==
    IF idx < ATTACKS_LEN
    THEN {Returned(ATTACKS[idx + 1])}
    ELSE {Panicked} \cup {Returned(v) : v \in Unspecified}

\* The outcomes of rook_attacks(sq, occupied) and bishop_attacks(sq, occupied).
rook_attacks(sq, occupied) == get_unchecked(rook_index(sq, occupied))
bishop_attacks(sq, occupied) == get_unchecked(bishop_index(sq, occupied))

\* Bitboard ^ Bitboard
Xor(a, b) == (a \ b) \cup (b \ a)

queen_attacks(sq, occupied) ==
    {IF r.panicked \/ b.panicked THEN Panicked
     ELSE Returned(Xor(r.value, b.value)) :
        r \in rook_attacks(sq, occupied), b \in bishop_attacks(sq, occupied)}

rook_mask(sq) == ROOK_MAGICS[sq].mask
bishop_mask(sq) == BISHOP_MAGICS[sq].mask

(***************************************************************************)
(* The lookups applied to a square and two occupancies: occA has at most   *)
(* two pieces, on the lines of a queen on the square; occB is occA with    *)
(* further pieces added.                                                   *)
(***************************************************************************)
\* The occupancy and the result of tests::test_rook_attacks (rook on D6):
\* 0x3f7f28802826f5b9 and 0x8370808000000.
TestOccupancy ==
    {0, 3, 4, 5, 7, 8, 10, 12, 13, 14, 15, 17, 18, 21, 27, 29, 39, 43, 45,
     48, 49, 50, 51, 52, 53, 54, 56, 57, 58, 59, 60, 61}
TestAttacks == {27, 35, 40, 41, 42, 44, 45, 51}

QueenLines(sq) == SlidingAttacks(sq, ROOK_DELTAS \cup BISHOP_DELTAS, {})
Rim == {s \in Squares : FileOf(s) \in {0, 7} \/ RankOf(s) \in {0, 7}}

Blockers(sq) == {{}} \cup {{a, b} : a, b \in QueenLines(sq)}
Additions(sq) == {Rim, Squares \ QueenLines(sq), TestOccupancy}

InitMagic ==
    /\ magicPc = "args"
    /\ slider \in Squares
    /\ occA \in Blockers(slider)
    /\ occB \in {occA \cup extra : extra \in Additions(slider)}
    /\ rookIdx = <<>> /\ bishopIdx = <<>>
    /\ rookRes = <<>> /\ bishopRes = <<>> /\ queenRes = <<>>
    /\ IdlePerft /\ IdleUci /\ IdleRay

\* Look up the rook, bishop and queen attacks under occA and under occB.
Lookup ==
    /\ magicPc = "args"
    /\ rookIdx' = <<rook_index(slider, occA), rook_index(slider, occB)>>
    /\ bishopIdx' = <<bishop_index(slider, occA), bishop_index(slider, occB)>>
    /\ rookRes' \in rook_attacks(slider, occA) \X rook_attacks(slider, occB)
    /\ bishopRes' \in
          bishop_attacks(slider, occA) \X bishop_attacks(slider, occB)
    /\ queenRes' \in queen_attacks(slider, occA) \X queen_attacks(slider, occB)
    /\ magicPc' = "done"
    /\ UNCHANGED <<slider, occA, occB>>
    /\ UNCHANGED <<perftVars, uciVars, rayVars>>

NextMagic == Lookup

SpecMagic == InitMagic /\ [][NextMagic]_vars

\* C2: rook_attacks and bishop_attacks, read from the table at the hashed
\* index, equal the result of casting a ray in each of the piece's four
\* directions, stopping at and including the first occupied square.
C2_LookupEqualsRayCast ==
    magicPc = "done" =>
        /\ rookRes = <<Returned(SlidingAttacks(slider, ROOK_DELTAS, occA)),
                       Returned(SlidingAttacks(slider, ROOK_DELTAS, occB))>>
        /\ bishopRes = <<Returned(SlidingAttacks(slider, BISHOP_DELTAS, occA)),
                         Returned(SlidingAttacks(slider, BISHOP_DELTAS, occB))>>

\* The rook on D6 (square 43) of tests::test_rook_attacks.
C2_Witness ==
    /\ magicPc = "done"
    /\ slider = 43
    /\ occB = TestOccupancy
    /\ rookRes[2] = Returned(TestAttacks)

\* C9: the index computed by rook_attacks and bishop_attacks is below the
\* length of ATTACKS, its hash part is in [0, 4096) for the rook and in
\* [0, 512) for the bishop, and the debug assertion never fails.
C9_IndexInBounds ==
    magicPc = "done" =>
        \A i \in 1..2 :
            /\ rookIdx[i] < ATTACKS_LEN
            /\ bishopIdx[i] < ATTACKS_LEN
            /\ rookIdx[i] - ROOK_MAGICS[slider].offset \in 0..4095
            /\ bishopIdx[i] - BISHOP_MAGICS[slider].offset \in 0..511
            /\ ~ rookRes[i].panicked
            /\ ~ bishopRes[i].panicked
            /\ ~ queenRes[i].panicked

\* A lookup of the last entry of the table.
C9_Witness ==
    /\ magicPc = "done"
    /\ \E i \in 1..2 : rookIdx[i] = ATTACKS_LEN - 1 \/ bishopIdx[i] = ATTACKS_LEN - 1

\* C10: two occupancies that agree on rook_mask(sq) give the same
\* rook_attacks, two that agree on bishop_mask(sq) the same bishop_attacks,
\* and two that agree on both the same queen_attacks.
C10_OutsideMaskIrrelevant ==
    magicPc = "done" =>
        LET sameRook == occA \cap rook_mask(slider) = occB \cap rook_mask(slider)
            sameBishop ==
                occA \cap bishop_mask(slider) = occB \cap bishop_mask(slider)
        IN /\ sameRook => rookRes[1] = rookRes[2]
           /\ sameBishop => bishopRes[1] = bishopRes[2]
           /\ (sameRook /\ sameBishop) => queenRes[1] = queenRes[2]

\* Blockers inside both masks, and pieces added outside both.
C10_Witness ==
    /\ magicPc = "done"
    /\ occA # occB
    /\ occA \cap rook_mask(slider) # {}
    /\ occA \cap bishop_mask(slider) # {}
    /\ occA \cap rook_mask(slider) = occB \cap rook_mask(slider)
    /\ occA \cap bishop_mask(slider) = occB \cap bishop_mask(slider)
    /\ queenRes[1] = queenRes[2]

====
